---------------------------- MODULE Spec2Model ----------------------------
(***************************************************************************)
(* galaxygst: the RawGhostData delta codec (quantizing setters,            *)
(* compare_and_update, pack) of galaxygst/gst.py and the frame-synchronized *)
(* capture loop that drives it.                                            *)
(*                                                                         *)
(* Python objects live in a heap: heap[id] is a RawGhostData, a Vec3i or   *)
(* Vec3f, or a list.  A field that holds an object holds its id, so that    *)
(* copying by value and sharing a reference are different things.          *)
(*                                                                         *)
(* A Python float is modelled by the integer number of 1/256 units it      *)
(* holds (Den == 256): every input used is a binary fraction, and products *)
(* with the power-of-two shift ratios are exact both here and in IEEE      *)
(* arithmetic.  A 32-bit unsigned value is a pair <<hi, lo>> of 16-bit     *)
(* halves.  A string is the sequence of its ASCII codes.                   *)
(***************************************************************************)
EXTENDS Integers, Sequences, FiniteSets, TLC

VARIABLES heap, last, out, nsets, loop

vars == <<heap, last, out, nsets, loop>>

---------------------------------------------------------------------------
(* Bounds of the model *)

\* setter calls on the incoming snapshot in one behaviour of Spec
MaxSets == 2
\* QSpec: inputs range over -MaxCoarse..MaxCoarse quarter units
MaxCoarse == 800
\* QSpec: and over -MaxFine..MaxFine units of 1/256
MaxFine == 300
\* LoopSpec: frames captured in one session
MaxFrames == 3
\* StreamSpec: snapshots fed to the codec in one behaviour
MaxSnapshots == 3

---------------------------------------------------------------------------
(* Program constants *)

\* 1 / 0.00390625: the denominator of get_shift_ratio's float, and the unit
\* in which floats are counted
Den == 256

RECORDER_MODE_RECORDING == 2
RECORDER_MODE_STOPPED == 3

GHOST_TYPE_GHOST_ATTACK_GHOST == 0
GHOST_TYPE_PICHAN_RACER == 1
GHOST_TYPE_GHOST_PLAYER_MARIO == 2
GHOST_TYPE_GHOST_PLAYER_LUIGI == 3

GhostTypes == { GHOST_TYPE_GHOST_ATTACK_GHOST, GHOST_TYPE_PICHAN_RACER,
                GHOST_TYPE_GHOST_PLAYER_MARIO, GHOST_TYPE_GHOST_PLAYER_LUIGI }

PACKET_FLAG_POSITION_INT == 1
PACKET_FLAG_ROTATION_X == 2
PACKET_FLAG_ROTATION_Y == 4
PACKET_FLAG_ROTATION_Z == 8
PACKET_FLAG_ACTION_NAME == 16
PACKET_FLAG_BCK_FRAME == 32
PACKET_FLAG_TRACK_WEIGHT_0 == 64
PACKET_FLAG_TRACK_WEIGHT_1 == 128
PACKET_FLAG_TRACK_WEIGHT_2 == 256
PACKET_FLAG_TRACK_WEIGHT_3 == 512
PACKET_FLAG_SCALE == 1024
PACKET_FLAG_VELOCITY == 2048
PACKET_FLAG_BCK_RATE == 4096
PACKET_FLAG_ACTION_HASH == 8192
PACKET_FLAG_POSITION_FLOAT == 16384

---------------------------------------------------------------------------
(* Integer helpers *)

RECURSIVE Pow2(_)
Pow2(n) == IF n <= 0 THEN 1 ELSE 2 * Pow2(n - 1)

Abs(a) == IF a < 0 THEN -a ELSE a

\* Python's int(a / b) for b > 0: the quotient truncated toward zero
TruncDiv(a, b) == IF a >= 0 THEN a \div b ELSE -((-a) \div b)

\* flags & flag for a single-bit flag; flags is a two's complement integer of
\* unbounded width (\div rounds down, as Python's >> does)
BitAnd(flags, flag) == IF (flags \div flag) % 2 = 1 THEN flag ELSE 0

\* flags | flag for a single-bit flag
BitOr(flags, flag) == IF BitAnd(flags, flag) # 0 THEN flags ELSE flags + flag

\* a float literal num/den (den a power of two dividing Den) in 1/256 units
Float(num, den) == (num * Den) \div den

Vec3(x, y, z) == [x |-> x, y |-> y, z |-> z]

---------------------------------------------------------------------------
(* Quantization layer *)

\* get_shift_ratio(shift), as the numerator of the float over Den:
\* (256 << shift) * 0.00390625 or (256 >> -shift) * 0.00390625
get_shift_ratio(shift) ==
    IF shift > 0 THEN 256 * Pow2(shift)
    ELSE 256 \div Pow2(-shift)

clamp(min, max, value) ==
    IF value < min THEN min
    ELSE IF value > max THEN max
    ELSE value

\* the product rounded down, for truncated toward zero
IntOfProduct_Floor(value, ratio) == (value * ratio) \div (Den * Den)

\* int(value * ratio) for floats value (value/Den) and ratio (ratio/Den)
IntOfProduct(value, ratio) == TruncDiv(value * ratio, Den * Den)

---------------------------------------------------------------------------
(* Objects *)

\* Vec3i.set with the last component forgotten
Vec3_set_DropsZ(h, dst, src) ==
    [h EXCEPT ![dst] = [x |-> src.x, y |-> src.y, z |-> h[dst].z]]

\* Vec3f.set / Vec3i.set: the components are copied into the object dst
Vec3_set(h, dst, src) ==
    [h EXCEPT ![dst] = [x |-> src.x, y |-> src.y, z |-> src.z]]

\* Vec3i.__ne__ for two Vec3i
Vec3_ne(a, b) == a.x # b.x \/ a.y # b.y \/ a.z # b.z

\* RawGhostData.__init__: the object, <<id, "self">>, and the objects it
\* constructs, each with an id of its own
NewRawGhostData(id, ghost_data_type) ==
    (<<id, "self">> :> [ ghost_data_type |-> ghost_data_type,
             position      |-> <<id, "position">>,
             position_f    |-> <<id, "position_f">>,
             rotation      |-> <<id, "rotation">>,
             scale         |-> <<id, "scale">>,
             velocity      |-> <<id, "velocity">>,
             action_name   |-> << >>,
             action_hash   |-> <<0, 0>>,
             bck_frame     |-> 0,
             track_weights |-> <<id, "track_weights">>,
             bck_rate      |-> 0,
             packet_flags  |-> -1 ])
    @@ (<<id, "position">>      :> Vec3(0, 0, 0))
    @@ (<<id, "position_f">>    :> Vec3(0, 0, 0))
    @@ (<<id, "rotation">>      :> Vec3(0, 0, 0))
    @@ (<<id, "scale">>         :> Vec3(0, 0, 0))
    @@ (<<id, "velocity">>      :> Vec3(0, 0, 0))
    @@ (<<id, "track_weights">> :> <<0, 0, 0, 0>>)


\* the RawGhostData named id, and the object one of its fields holds
Obj(h, id) == h[<<id, "self">>]
Position(h, id) == h[Obj(h, id).position]
PositionF(h, id) == h[Obj(h, id).position_f]
Rotation(h, id) == h[Obj(h, id).rotation]
Scale(h, id) == h[Obj(h, id).scale]
Velocity(h, id) == h[Obj(h, id).velocity]
TrackWeights(h, id) == h[Obj(h, id).track_weights]

---------------------------------------------------------------------------
(* RawGhostData's setters *)

set_position(h, self, position) ==
    LET ratio == get_shift_ratio(-2)
        h1 == [h EXCEPT ![Obj(h, self).position] =
                  Vec3(IntOfProduct(position.x, ratio),
                       IntOfProduct(position.y, ratio),
                       IntOfProduct(position.z, ratio))]
    IN  Vec3_set(h1, Obj(h1, self).position_f, position)

set_rotation(h, self, rotation) ==
    LET ratio == get_shift_ratio(7)
        lo == Float(-180, 1)
        hi == Float(180, 1)
    IN  [h EXCEPT ![Obj(h, self).rotation] =
            Vec3(IntOfProduct(clamp(lo, hi, rotation.x), ratio),
                 IntOfProduct(clamp(lo, hi, rotation.y), ratio),
                 IntOfProduct(clamp(lo, hi, rotation.z), ratio))]

set_scale(h, self, scale) ==
    LET ratio == get_shift_ratio(3)
    IN  [h EXCEPT ![Obj(h, self).scale] =
            Vec3(IntOfProduct(scale.x, ratio),
                 IntOfProduct(scale.y, ratio),
                 IntOfProduct(scale.z, ratio))]

set_velocity(h, self, velocity) ==
    LET ratio == get_shift_ratio(0)
    IN  [h EXCEPT ![Obj(h, self).velocity] =
            Vec3(IntOfProduct(velocity.x, ratio),
                 IntOfProduct(velocity.y, ratio),
                 IntOfProduct(velocity.z, ratio))]

set_action_name(h, self, action_name) ==
    [h EXCEPT ![<<self, "self">>].action_name = action_name]

set_action_hash(h, self, action_hash) ==
    [h EXCEPT ![<<self, "self">>].action_hash = action_hash]

set_bck_frame(h, self, bck_frame) ==
    LET ratio == get_shift_ratio(2)
    IN  [h EXCEPT ![<<self, "self">>].bck_frame = IntOfProduct(bck_frame, ratio)]

set_bck_rate(h, self, bck_rate) ==
    LET ratio == get_shift_ratio(3)
    IN  [h EXCEPT ![<<self, "self">>].bck_rate = IntOfProduct(bck_rate, ratio)]

\* a track weight of 1.0 scaled like any other
QuantizeWeight_NoSaturation(track_weight, ratio) ==
    IntOfProduct(track_weight, ratio)

\* one track weight: the loop body of set_track_weights
QuantizeWeight(track_weight, ratio) ==
    IF track_weight = Float(1, 1) THEN -128
    ELSE IntOfProduct(track_weight, ratio)

\* track_weights is a 4-tuple of floats; list index i is i + 1 here
set_track_weights(h, self, track_weights) ==
    LET ratio == get_shift_ratio(7)
    IN  [h EXCEPT ![Obj(h, self).track_weights] =
            [i \in 1..4 |-> QuantizeWeight(track_weights[i], ratio)]]

---------------------------------------------------------------------------
(* RawGhostData.compare_and_update *)

\* self.packet_flags = flag, for |=
SetFlag_Assign(h, self, flag) ==
    [h EXCEPT ![<<self, "self">>].packet_flags = flag]

\* self.packet_flags |= flag
SetFlag(h, self, flag) ==
    [h EXCEPT ![<<self, "self">>].packet_flags = BitOr(@, flag)]

\* the action name compared whatever the ghost type
NameTypes_All == GhostTypes

\* the ghost types whose action name, and whose action hash, is compared
NameTypes == { GHOST_TYPE_PICHAN_RACER }

\* the action hash compared whatever the ghost type
HashTypes_All == GhostTypes

HashTypes == { GHOST_TYPE_GHOST_ATTACK_GHOST }

\* if self.track_weights[i] != other.track_weights[i]: flag it and copy it
\* (list index i is i + 1 here)
UpdateTrackWeight(h, self, other, i, flag) ==
    IF TrackWeights(h, self)[i + 1] # TrackWeights(h, other)[i + 1]
    THEN [SetFlag(h, self, flag) EXCEPT ![Obj(h, self).track_weights][i + 1] =
              TrackWeights(h, other)[i + 1]]
    ELSE h

\* self.position = other.position: the reference taken, not the components
TakePosition_Alias(h, self, other) ==
    [h EXCEPT ![<<self, "self">>].position = Obj(h, other).position]

\* self.position.set(other.position), self.scale.set(other.scale)
TakePosition(h, self, other) ==
    Vec3_set(h, Obj(h, self).position, Position(h, other))

TakeScale(h, self, other) ==
    Vec3_set(h, Obj(h, self).scale, Scale(h, other))

\* the statements of compare_and_update, in program order: the heap each one
\* leaves when run on the heap h
CompareStatement(n, h, self, other) ==
    CASE n = 1 -> [h EXCEPT ![<<self, "self">>].packet_flags = 0]
      [] n = 2 ->
            IF Vec3_ne(Position(h, self), Position(h, other))
            THEN TakePosition(SetFlag(h, self, PACKET_FLAG_POSITION_INT),
                              self, other)
            ELSE h
      [] n = 3 ->
            IF Vec3_ne(Scale(h, self), Scale(h, other))
            THEN TakeScale(SetFlag(h, self, PACKET_FLAG_SCALE), self, other)
            ELSE h
      [] n = 4 ->
            IF Rotation(h, self).x # Rotation(h, other).x
            THEN [SetFlag(h, self, PACKET_FLAG_ROTATION_X)
                    EXCEPT ![Obj(h, self).rotation].x = Rotation(h, other).x]
            ELSE h
      [] n = 5 ->
            IF Rotation(h, self).y # Rotation(h, other).y
            THEN [SetFlag(h, self, PACKET_FLAG_ROTATION_Y)
                    EXCEPT ![Obj(h, self).rotation].y = Rotation(h, other).y]
            ELSE h
      [] n = 6 ->
            IF Rotation(h, self).z # Rotation(h, other).z
            THEN [SetFlag(h, self, PACKET_FLAG_ROTATION_Z)
                    EXCEPT ![Obj(h, self).rotation].z = Rotation(h, other).z]
            ELSE h
      [] n = 7 ->
            IF /\ Obj(h, self).action_name # Obj(h, other).action_name
               /\ Obj(h, self).ghost_data_type \in NameTypes
            THEN [SetFlag(h, self, PACKET_FLAG_ACTION_NAME)
                    EXCEPT ![<<self, "self">>].action_name =
                               Obj(h, other).action_name]
            ELSE h
      [] n = 8 ->
            IF /\ Obj(h, self).action_hash # Obj(h, other).action_hash
               /\ Obj(h, self).ghost_data_type \in HashTypes
            THEN [SetFlag(h, self, PACKET_FLAG_ACTION_HASH)
                    EXCEPT ![<<self, "self">>].action_hash =
                               Obj(h, other).action_hash]
            ELSE h
      [] n = 9 ->
            IF Obj(h, self).bck_frame # Obj(h, other).bck_frame
            THEN [SetFlag(h, self, PACKET_FLAG_BCK_FRAME)
                    EXCEPT ![<<self, "self">>].bck_frame =
                               Obj(h, other).bck_frame]
            ELSE h
      [] n = 10 ->
            IF Obj(h, self).bck_rate # Obj(h, other).bck_rate
            THEN [SetFlag(h, self, PACKET_FLAG_BCK_RATE)
                    EXCEPT ![<<self, "self">>].bck_rate =
                               Obj(h, other).bck_rate]
            ELSE h
      [] n = 11 ->
            UpdateTrackWeight(h, self, other, 0, PACKET_FLAG_TRACK_WEIGHT_0)
      [] n = 12 ->
            UpdateTrackWeight(h, self, other, 1, PACKET_FLAG_TRACK_WEIGHT_1)
      [] n = 13 ->
            UpdateTrackWeight(h, self, other, 2, PACKET_FLAG_TRACK_WEIGHT_2)
      [] n = 14 ->
            UpdateTrackWeight(h, self, other, 3, PACKET_FLAG_TRACK_WEIGHT_3)

\* statements n, n + 1, ... run one after the other, each on the heap the
\* one before it left (the heap `after`, a value computed once)
RECURSIVE CompareFrom(_, _, _, _)
CompareFrom(n, h, self, other) ==
    IF n > 14 THEN h
    ELSE CHOOSE done \in { CompareFrom(n + 1, after, self, other) :
                             after \in { CompareStatement(n, h, self, other) } } :
            TRUE

compare_and_update(h, self, other) == CompareFrom(1, h, self, other)

---------------------------------------------------------------------------
(* struct.pack and RawGhostData.pack *)

\* two's complement bytes
Byte(v) == v % 256

\* struct.pack's "b", ">h", ">I": the value ranges it accepts, and the bytes
FitsS8(v) == -128 <= v /\ v <= 127
FitsS16(v) == -32768 <= v /\ v <= 32767
FitsU32(v) == /\ 0 <= v[1] /\ v[1] <= 65535
              /\ 0 <= v[2] /\ v[2] <= 65535
S8(v) == << Byte(v) >>
S16BE(v) == << Byte(v \div 256), Byte(v) >>
U32BE(v) == << v[1] \div 256, v[1] % 256, v[2] \div 256, v[2] % 256 >>

RECURSIVE Log2(_)
Log2(a) == IF a <= 1 THEN 0 ELSE 1 + Log2(a \div 2)

\* struct.pack's ">f" of the float value/Den: sign, biased exponent and the 23
\* mantissa bits of the IEEE single (value is a binary fraction a single holds)
F32BE(value) ==
    IF value = 0 THEN <<0, 0, 0, 0>>
    ELSE LET a == Abs(value)
             k == Log2(a)
             sign == IF value < 0 THEN 1 ELSE 0
             e == k - 8 + 127
             m == IF k <= 23 THEN a * Pow2(23 - k) - Pow2(23)
                  ELSE (a \div Pow2(k - 23)) - Pow2(23)
         IN  << sign * 128 + e \div 2, (e % 2) * 128 + m \div 65536,
                (m \div 256) % 256, m % 256 >>

Vec3_S8(v) == S8(v.x) \o S8(v.y) \o S8(v.z)
Vec3_FitsS8(v) == FitsS8(v.x) /\ FitsS8(v.y) /\ FitsS8(v.z)

\* one "if packet_flags & FLAG: out.write(...)": nothing when the flag is
\* clear, the bytes when the values fit their format, struct.error otherwise
Write(flagged, fits, bytes) ==
    IF ~flagged THEN [err |-> FALSE, bytes |-> << >>]
    ELSE IF fits THEN [err |-> FALSE, bytes |-> bytes]
    ELSE [err |-> TRUE, bytes |-> << >>]

\* the action name without its terminator
NameBytes_NoTerminator(action_name) == action_name

\* (self.action_name + "\0").encode("ascii")
NameBytes(action_name) == action_name \o <<0>>

\* pack's writes, in the order the code makes them: from the position to the
\* action hash, and from the BCK frame to the last track weight
TransformWrites(h, self) ==
    LET o == Obj(h, self)
        f == o.packet_flags
        Has(flag) == BitAnd(f, flag) # 0
    IN << IF Has(PACKET_FLAG_POSITION_FLOAT)
          THEN Write(TRUE, TRUE, F32BE(PositionF(h, self).x)
                                 \o F32BE(PositionF(h, self).y)
                                 \o F32BE(PositionF(h, self).z))
          ELSE Write(Has(PACKET_FLAG_POSITION_INT),
                     /\ FitsS16(Position(h, self).x)
                     /\ FitsS16(Position(h, self).y)
                     /\ FitsS16(Position(h, self).z),
                     S16BE(Position(h, self).x) \o S16BE(Position(h, self).y)
                     \o S16BE(Position(h, self).z)),
          Write(Has(PACKET_FLAG_VELOCITY), Vec3_FitsS8(Velocity(h, self)),
                Vec3_S8(Velocity(h, self))),
          Write(Has(PACKET_FLAG_SCALE), Vec3_FitsS8(Scale(h, self)),
                Vec3_S8(Scale(h, self))),
          Write(Has(PACKET_FLAG_ROTATION_X), FitsS8(Rotation(h, self).x),
                S8(Rotation(h, self).x)),
          Write(Has(PACKET_FLAG_ROTATION_Y), FitsS8(Rotation(h, self).y),
                S8(Rotation(h, self).y)),
          Write(Has(PACKET_FLAG_ROTATION_Z), FitsS8(Rotation(h, self).z),
                S8(Rotation(h, self).z)),
          Write(Has(PACKET_FLAG_ACTION_NAME), TRUE, NameBytes(o.action_name)),
          Write(Has(PACKET_FLAG_ACTION_HASH), FitsU32(o.action_hash),
                U32BE(o.action_hash)) >>

\* the BCK rate written after the track weights
AnimationWrites_RateLast(h, self) ==
    LET o == Obj(h, self)
        f == o.packet_flags
        Has(flag) == BitAnd(f, flag) # 0
        tw == TrackWeights(h, self)
    IN << Write(Has(PACKET_FLAG_BCK_FRAME), FitsS8(o.bck_frame), S8(o.bck_frame)),
          Write(Has(PACKET_FLAG_TRACK_WEIGHT_0), FitsS8(tw[1]), S8(tw[1])),
          Write(Has(PACKET_FLAG_TRACK_WEIGHT_1), FitsS8(tw[2]), S8(tw[2])),
          Write(Has(PACKET_FLAG_TRACK_WEIGHT_2), FitsS8(tw[3]), S8(tw[3])),
          Write(Has(PACKET_FLAG_TRACK_WEIGHT_3), FitsS8(tw[4]), S8(tw[4])),
          Write(Has(PACKET_FLAG_BCK_RATE), FitsS8(o.bck_rate), S8(o.bck_rate)) >>

AnimationWrites(h, self) ==
    LET o == Obj(h, self)
        f == o.packet_flags
        Has(flag) == BitAnd(f, flag) # 0
        tw == TrackWeights(h, self)
    IN << Write(Has(PACKET_FLAG_BCK_FRAME), FitsS8(o.bck_frame), S8(o.bck_frame)),
          Write(Has(PACKET_FLAG_BCK_RATE), FitsS8(o.bck_rate), S8(o.bck_rate)),
          Write(Has(PACKET_FLAG_TRACK_WEIGHT_0), FitsS8(tw[1]), S8(tw[1])),
          Write(Has(PACKET_FLAG_TRACK_WEIGHT_1), FitsS8(tw[2]), S8(tw[2])),
          Write(Has(PACKET_FLAG_TRACK_WEIGHT_2), FitsS8(tw[3]), S8(tw[3])),
          Write(Has(PACKET_FLAG_TRACK_WEIGHT_3), FitsS8(tw[4]), S8(tw[4])) >>

RECURSIVE Concat(_)
Concat(ws) == IF ws = << >> THEN << >> ELSE Head(ws).bytes \o Concat(Tail(ws))

\* pack(): the bytes written and the bitmask, or the struct.error the first
\* value that does not fit its format raises
pack(h, self) ==
    LET ws == TransformWrites(h, self) \o AnimationWrites(h, self)
    IN  IF \E i \in 1..Len(ws) : ws[i].err
        THEN [status |-> "struct.error", payload |-> << >>, packet_flags |-> 0]
        ELSE [status |-> "returned", payload |-> Concat(ws),
              packet_flags |-> Obj(h, self).packet_flags]

---------------------------------------------------------------------------
(* The codec in use: Spec *)
(* "ghost" is the retained RawGhostData, "snap" the incoming one.  The      *)
(* setters quantize game values into snap, ghost.compare_and_update(snap)  *)
(* takes the differences over, ghost.pack() serializes them.               *)

\* game values (floats in 1/256 units), as tuples
PositionInputs == { << Float(11, 2), Float(-11, 2), Float(4, 1) >>,
                    << Float(4, 1), Float(-31, 4), Float(1000, 1) >> }
RotationInputs == { << Float(1, 2), 0, Float(-1, 2) >>,
                    << Float(1, 2), Float(1, 4), Float(-1, 2) >>,
                    << Float(90, 1), 0, 0 >> }
ScaleInputs == { << Float(1, 1), Float(1, 1), Float(1, 1) >>,
                 << Float(3, 2), Float(1, 1), Float(1, 4) >> }
VelocityInputs == { << Float(3, 2), 0, Float(-11, 4) >> }
\* "Wait", "Run"
ActionNameInputs == { << 87, 97, 105, 116 >>, << 82, 117, 110 >> }
\* 0xDEADBEEF, 0x00000001
ActionHashInputs == { << 57005, 48879 >>, << 0, 1 >> }
BckFrameInputs == { Float(5, 4), Float(40, 1) }
BckRateInputs == { Float(1, 1), Float(-1, 2) }
TrackWeightInputs == { << Float(1, 1), 0, 0, 0 >>,
                       << Float(1, 2), Float(1, 2), 0, Float(1, 4) >> }

AsVec3(t) == Vec3(t[1], t[2], t[3])

NoOut == [status |-> "none", payload |-> << >>, packet_flags |-> 0]
NoLoop == [status |-> "idle", next_frame |-> <<0, 0>>, frames |-> 0,
           file |-> << >>]

\* what the last operation was, with its argument, and whether the operation
\* before it was the same one
Did(op, arg) == [op |-> op, arg |-> arg, again |-> last.op = op]

Init ==
    /\ \E t \in GhostTypes :
          heap = NewRawGhostData("ghost", t) @@ NewRawGhostData("snap", t)
    /\ last = [op |-> "init", arg |-> << >>, again |-> FALSE]
    /\ out = NoOut
    /\ nsets = 0
    /\ loop = NoLoop

\* a setter call on the incoming snapshot
Setter(op, arg, h) ==
    /\ nsets < MaxSets
    /\ nsets' = nsets + 1
    /\ heap' = h
    /\ last' = Did(op, arg)
    /\ out' = NoOut
    /\ UNCHANGED loop

SetPosition ==
    \E v \in PositionInputs :
        Setter("set_position", v, set_position(heap, "snap", AsVec3(v)))

SetRotation ==
    \E v \in RotationInputs :
        Setter("set_rotation", v, set_rotation(heap, "snap", AsVec3(v)))

SetScale ==
    \E v \in ScaleInputs :
        Setter("set_scale", v, set_scale(heap, "snap", AsVec3(v)))

SetVelocity ==
    \E v \in VelocityInputs :
        Setter("set_velocity", v, set_velocity(heap, "snap", AsVec3(v)))

SetActionName ==
    \E v \in ActionNameInputs :
        Setter("set_action_name", v, set_action_name(heap, "snap", v))

SetActionHash ==
    \E v \in ActionHashInputs :
        Setter("set_action_hash", v, set_action_hash(heap, "snap", v))

SetBckFrame ==
    \E v \in BckFrameInputs :
        Setter("set_bck_frame", <<v>>, set_bck_frame(heap, "snap", v))

SetBckRate ==
    \E v \in BckRateInputs :
        Setter("set_bck_rate", <<v>>, set_bck_rate(heap, "snap", v))

SetTrackWeights ==
    \E v \in TrackWeightInputs :
        Setter("set_track_weights", v, set_track_weights(heap, "snap", v))

\* ghost.compare_and_update(snap)
CompareAndUpdate ==
    /\ heap' = compare_and_update(heap, "ghost", "snap")
    /\ last' = Did("compare_and_update", << >>)
    /\ out' = NoOut
    /\ UNCHANGED <<nsets, loop>>

\* ghost.pack()
Pack ==
    /\ out' = pack(heap, "ghost")
    /\ last' = Did("pack", << >>)
    /\ UNCHANGED <<heap, nsets, loop>>

Next ==
    \/ SetPosition
    \/ SetRotation
    \/ SetScale
    \/ SetVelocity
    \/ SetActionName
    \/ SetActionHash
    \/ SetBckFrame
    \/ SetBckRate
    \/ SetTrackWeights
    \/ CompareAndUpdate
    \/ Pack

Spec == Init /\ [][Next]_vars

---------------------------------------------------------------------------
(* Properties of the codec, checked under Spec *)

Flags(h) == Obj(h, "ghost").packet_flags
Flagged(h, flag) == BitAnd(Flags(h), flag) # 0
Bit(b, flag) == IF b THEN flag ELSE 0

\* a step that is a call of compare_and_update, of pack, of a setter
ComparedNow == last'.op = "compare_and_update"
PackedNow == last'.op = "pack"
SetNow == last'.op \notin {"init", "compare_and_update", "pack"}

\* the bits of the fields in which the incoming snapshot differs from the
\* retained one; the action identifier is the name for a PichanRacer, the hash
\* for an AttackGhost
ChangedFieldBits(h) ==
    LET g == Obj(h, "ghost")
        s == Obj(h, "snap")
    IN  Bit(Position(h, "ghost") # Position(h, "snap"), PACKET_FLAG_POSITION_INT)
      + Bit(Scale(h, "ghost") # Scale(h, "snap"), PACKET_FLAG_SCALE)
      + Bit(Rotation(h, "ghost").x # Rotation(h, "snap").x, PACKET_FLAG_ROTATION_X)
      + Bit(Rotation(h, "ghost").y # Rotation(h, "snap").y, PACKET_FLAG_ROTATION_Y)
      + Bit(Rotation(h, "ghost").z # Rotation(h, "snap").z, PACKET_FLAG_ROTATION_Z)
      + Bit(g.ghost_data_type = GHOST_TYPE_PICHAN_RACER
              /\ g.action_name # s.action_name, PACKET_FLAG_ACTION_NAME)
      + Bit(g.ghost_data_type = GHOST_TYPE_GHOST_ATTACK_GHOST
              /\ g.action_hash # s.action_hash, PACKET_FLAG_ACTION_HASH)
      + Bit(g.bck_frame # s.bck_frame, PACKET_FLAG_BCK_FRAME)
      + Bit(g.bck_rate # s.bck_rate, PACKET_FLAG_BCK_RATE)
      + Bit(TrackWeights(h, "ghost")[1] # TrackWeights(h, "snap")[1],
            PACKET_FLAG_TRACK_WEIGHT_0)
      + Bit(TrackWeights(h, "ghost")[2] # TrackWeights(h, "snap")[2],
            PACKET_FLAG_TRACK_WEIGHT_1)
      + Bit(TrackWeights(h, "ghost")[3] # TrackWeights(h, "snap")[3],
            PACKET_FLAG_TRACK_WEIGHT_2)
      + Bit(TrackWeights(h, "ghost")[4] # TrackWeights(h, "snap")[4],
            PACKET_FLAG_TRACK_WEIGHT_3)

C2_SecondCallClearsMask ==
    (last.op = "compare_and_update" /\ last.again) => Flags(heap) = 0

\* C2's case: the same snapshot compared twice, the first call having taken
\* a position and a rotation over
C2_ComparedTwice ==
    /\ last.op = "compare_and_update" /\ last.again
    /\ Position(heap, "ghost") # Vec3(0, 0, 0)
    /\ Rotation(heap, "ghost") # Vec3(0, 0, 0)
    /\ Flags(heap) = 0

\* the wire fields: whether a field is written, and its encoding
FieldWritten(h, field) ==
    CASE field = "position" -> Flagged(h, PACKET_FLAG_POSITION_FLOAT)
                               \/ Flagged(h, PACKET_FLAG_POSITION_INT)
      [] field = "velocity" -> Flagged(h, PACKET_FLAG_VELOCITY)
      [] field = "scale" -> Flagged(h, PACKET_FLAG_SCALE)
      [] field = "rotation_x" -> Flagged(h, PACKET_FLAG_ROTATION_X)
      [] field = "rotation_y" -> Flagged(h, PACKET_FLAG_ROTATION_Y)
      [] field = "rotation_z" -> Flagged(h, PACKET_FLAG_ROTATION_Z)
      [] field = "action_name" -> Flagged(h, PACKET_FLAG_ACTION_NAME)
      [] field = "action_hash" -> Flagged(h, PACKET_FLAG_ACTION_HASH)
      [] field = "bck_frame" -> Flagged(h, PACKET_FLAG_BCK_FRAME)
      [] field = "bck_rate" -> Flagged(h, PACKET_FLAG_BCK_RATE)
      [] field = "track_weight_0" -> Flagged(h, PACKET_FLAG_TRACK_WEIGHT_0)
      [] field = "track_weight_1" -> Flagged(h, PACKET_FLAG_TRACK_WEIGHT_1)
      [] field = "track_weight_2" -> Flagged(h, PACKET_FLAG_TRACK_WEIGHT_2)
      [] field = "track_weight_3" -> Flagged(h, PACKET_FLAG_TRACK_WEIGHT_3)

FieldEncoding(h, field) ==
    CASE field = "position" ->
            IF Flagged(h, PACKET_FLAG_POSITION_FLOAT)
            THEN F32BE(PositionF(h, "ghost").x) \o F32BE(PositionF(h, "ghost").y)
                 \o F32BE(PositionF(h, "ghost").z)
            ELSE S16BE(Position(h, "ghost").x) \o S16BE(Position(h, "ghost").y)
                 \o S16BE(Position(h, "ghost").z)
      [] field = "velocity" -> Vec3_S8(Velocity(h, "ghost"))
      [] field = "scale" -> Vec3_S8(Scale(h, "ghost"))
      [] field = "rotation_x" -> S8(Rotation(h, "ghost").x)
      [] field = "rotation_y" -> S8(Rotation(h, "ghost").y)
      [] field = "rotation_z" -> S8(Rotation(h, "ghost").z)
      [] field = "action_name" -> Obj(h, "ghost").action_name \o <<0>>
      [] field = "action_hash" -> U32BE(Obj(h, "ghost").action_hash)
      [] field = "bck_frame" -> S8(Obj(h, "ghost").bck_frame)
      [] field = "bck_rate" -> S8(Obj(h, "ghost").bck_rate)
      [] field = "track_weight_0" -> S8(TrackWeights(h, "ghost")[1])
      [] field = "track_weight_1" -> S8(TrackWeights(h, "ghost")[2])
      [] field = "track_weight_2" -> S8(TrackWeights(h, "ghost")[3])
      [] field = "track_weight_3" -> S8(TrackWeights(h, "ghost")[4])

RECURSIVE PayloadIn(_, _)
PayloadIn(order, h) ==
    IF order = << >> THEN << >>
    ELSE (IF FieldWritten(h, Head(order)) THEN FieldEncoding(h, Head(order))
          ELSE << >>) \o PayloadIn(Tail(order), h)

\* the wire order with the BCK rate last, and with the BCK rate before the
\* track weights
RateLastOrder ==
    << "position", "velocity", "scale", "rotation_x", "rotation_y",
       "rotation_z", "action_name", "action_hash", "bck_frame",
       "track_weight_0", "track_weight_1", "track_weight_2", "track_weight_3",
       "bck_rate" >>

RateBeforeWeightsOrder ==
    << "position", "velocity", "scale", "rotation_x", "rotation_y",
       "rotation_z", "action_name", "action_hash", "bck_frame", "bck_rate",
       "track_weight_0", "track_weight_1", "track_weight_2", "track_weight_3" >>

Returned == last.op = "pack" /\ out.status = "returned"

\* C3 as stated: the payload pack returns is the concatenation of the
\* encodings of exactly the flagged fields in the order position, velocity,
\* scale, rotation X, Y, Z, action name, action hash, BCK frame, track weights
\* 0 to 3, BCK rate.
C3_PayloadRateLast ==
    Returned => out.payload = PayloadIn(RateLastOrder, heap)

\* C3, amended: the payload pack returns is the concatenation of the encodings
\* of exactly the flagged fields in the order position (float if the float
\* bit is set, otherwise int), velocity, scale, rotation X, Y, Z, action name
\* with its NUL, action hash, BCK frame, BCK rate, track weights 0 to 3; a
\* field whose bit is clear contributes no bytes.
C3_PayloadRateBeforeWeights ==
    Returned => out.payload = PayloadIn(RateBeforeWeightsOrder, heap)

\* C3's case: a payload returned that holds a BCK rate and a track weight
\* whose bytes differ, after fields that are not flagged
C3_RateAndWeightPacked ==
    /\ Returned
    /\ Flags(heap) = PACKET_FLAG_BCK_RATE + PACKET_FLAG_TRACK_WEIGHT_0
    /\ out.payload = << 8, 128 >>

\* the payload length as the sum of the widths of the flagged fields, the two
\* position encodings counted each for its own bit
WidthSum(h) ==
    Bit(Flagged(h, PACKET_FLAG_POSITION_INT), 6)
    + Bit(Flagged(h, PACKET_FLAG_POSITION_FLOAT), 12)
    + Bit(Flagged(h, PACKET_FLAG_VELOCITY), 3)
    + Bit(Flagged(h, PACKET_FLAG_SCALE), 3)
    + Bit(Flagged(h, PACKET_FLAG_ROTATION_X), 1)
    + Bit(Flagged(h, PACKET_FLAG_ROTATION_Y), 1)
    + Bit(Flagged(h, PACKET_FLAG_ROTATION_Z), 1)
    + Bit(Flagged(h, PACKET_FLAG_ACTION_NAME), Len(Obj(h, "ghost").action_name) + 1)
    + Bit(Flagged(h, PACKET_FLAG_ACTION_HASH), 4)
    + Bit(Flagged(h, PACKET_FLAG_BCK_FRAME), 1)
    + Bit(Flagged(h, PACKET_FLAG_BCK_RATE), 1)
    + Bit(Flagged(h, PACKET_FLAG_TRACK_WEIGHT_0), 1)
    + Bit(Flagged(h, PACKET_FLAG_TRACK_WEIGHT_1), 1)
    + Bit(Flagged(h, PACKET_FLAG_TRACK_WEIGHT_2), 1)
    + Bit(Flagged(h, PACKET_FLAG_TRACK_WEIGHT_3), 1)

\* the same with the int position counted only when the float bit is clear
WidthSumOnePosition(h) ==
    WidthSum(h) - Bit(Flagged(h, PACKET_FLAG_POSITION_INT)
                        /\ Flagged(h, PACKET_FLAG_POSITION_FLOAT), 6)

\* pack leaves the object as it was and returns its bitmask; called again
\* with no call between, it returns the same
PackIsPure ==
    /\ heap' = heap
    /\ out'.status = "returned" => out'.packet_flags = Flags(heap)
    /\ last.op = "pack" => out' = out

\* C4 as stated: pack's payload is as long as the widths of the flagged
\* fields together (int position 6, float position 12, ...), pack changes
\* nothing, and a second pack returns the same payload and bitmask.
C4_LengthIsWidthSum ==
    [][PackedNow => /\ PackIsPure
                    /\ out'.status = "returned" =>
                          Len(out'.payload) = WidthSum(heap)]_vars

\* C4, amended: pack's payload is as long as the widths of the flagged fields
\* together, the position counting once (12 when the float bit is set,
\* otherwise 6 when the int bit is set); pack changes nothing, and a second
\* pack returns the same payload and bitmask.
C4_LengthCountsOnePosition ==
    [][PackedNow => /\ PackIsPure
                    /\ out'.status = "returned" =>
                          Len(out'.payload) = WidthSumOnePosition(heap)]_vars

\* C4's case: a PichanRacer's action name and position packed twice in a row
C4_PackedTwice ==
    /\ Returned /\ last.again
    /\ Flags(heap) = PACKET_FLAG_ACTION_NAME + PACKET_FLAG_POSITION_INT
    /\ Len(out.payload) = 6 + 4 + 1

\* C5: pack never fails: whatever the setters quantized and
\* compare_and_update took over fits the width it is packed with.
C5_PackNeverFails ==
    last.op = "pack" => out.status = "returned"

\* the action bits of the mask
NameBit(h) == Flagged(h, PACKET_FLAG_ACTION_NAME)
HashBit(h) == Flagged(h, PACKET_FLAG_ACTION_HASH)
NameDiffers(h) == Obj(h, "ghost").action_name # Obj(h, "snap").action_name
HashDiffers(h) == Obj(h, "ghost").action_hash # Obj(h, "snap").action_hash

\* a call that treats the name, or the hash, as the one compared identifier:
\* its change is flagged and taken over, the other's bit stays clear
NameIsCompared ==
    /\ ~HashBit(heap')
    /\ NameDiffers(heap) =>
          /\ NameBit(heap')
          /\ Obj(heap', "ghost").action_name = Obj(heap, "snap").action_name

HashIsCompared ==
    /\ ~NameBit(heap')
    /\ HashDiffers(heap) =>
          /\ HashBit(heap')
          /\ Obj(heap', "ghost").action_hash = Obj(heap, "snap").action_hash

\* a call that compares neither: no action bit, both retained values kept
NeitherIsCompared ==
    /\ ~NameBit(heap') /\ ~HashBit(heap')
    /\ Obj(heap', "ghost").action_name = Obj(heap, "ghost").action_name
    /\ Obj(heap', "ghost").action_hash = Obj(heap, "ghost").action_hash

\* C9 as stated: whatever the ghost type, every call of compare_and_update
\* treats one of the action name and the action hash as the compared
\* identifier, and never sets both bits.
C9_OneIdentifierForEveryType ==
    [][ComparedNow => /\ ~(NameBit(heap') /\ HashBit(heap'))
                      /\ NameIsCompared \/ HashIsCompared]_vars

\* C9, amended: the compared identifier is the action hash for an
\* AttackGhost and the action name for a PichanRacer: its change always sets
\* its bit and updates the retained value, a change of the other one sets no
\* bit.  For the reserved types PlayerMario and PlayerLuigi neither is
\* compared: no action bit is set and the retained name and hash stay.  The
\* two bits are never both set.
C9_IdentifierByGhostType ==
    [][ComparedNow =>
        LET t == Obj(heap, "ghost").ghost_data_type
        IN  /\ ~(NameBit(heap') /\ HashBit(heap'))
            /\ t = GHOST_TYPE_GHOST_ATTACK_GHOST => HashIsCompared
            /\ t = GHOST_TYPE_PICHAN_RACER => NameIsCompared
            /\ t \in {GHOST_TYPE_GHOST_PLAYER_MARIO, GHOST_TYPE_GHOST_PLAYER_LUIGI}
                  => NeitherIsCompared]_vars

\* C9's case: an AttackGhost compared with a snapshot whose name and hash both
\* differed: the hash is flagged and taken over, the name is neither
C9_AttackGhostHashOnly ==
    /\ last.op = "compare_and_update"
    /\ Obj(heap, "ghost").ghost_data_type = GHOST_TYPE_GHOST_ATTACK_GHOST
    /\ Flags(heap) = PACKET_FLAG_ACTION_HASH
    /\ Obj(heap, "ghost").action_hash = Obj(heap, "snap").action_hash
    /\ Obj(heap, "ghost").action_name # Obj(heap, "snap").action_name

\* the objects of the incoming snapshot
SnapObjects == { k \in DOMAIN heap : k[1] = "snap" }

\* everything the retained snapshot holds, by value
Retained(h) ==
    << Obj(h, "ghost").ghost_data_type, Position(h, "ghost"),
       PositionF(h, "ghost"), Rotation(h, "ghost"), Scale(h, "ghost"),
       Velocity(h, "ghost"), Obj(h, "ghost").action_name,
       Obj(h, "ghost").action_hash, Obj(h, "ghost").bck_frame,
       TrackWeights(h, "ghost"), Obj(h, "ghost").bck_rate >>

\* a compared field that was equal keeps its value and gets no bit
KeepsEqual(equal, same, flag) == equal => (same /\ ~Flagged(heap', flag))

\* C10: compare_and_update changes no object of the incoming snapshot; it
\* keeps the retained velocity, float position and ghost type and sets
\* neither the VELOCITY nor the POSITION_FLOAT bit, so the mask lies within the
\* other thirteen bits; a retained field equal to the incoming one keeps its
\* value and gets no bit.  What is retained is a copy: a later change of the
\* incoming snapshot does not change the retained one.
C10_CompareFrame ==
    [][ /\ ComparedNow =>
           /\ \A k \in SnapObjects : heap'[k] = heap[k]
           /\ Velocity(heap', "ghost") = Velocity(heap, "ghost")
           /\ PositionF(heap', "ghost") = PositionF(heap, "ghost")
           /\ Obj(heap', "ghost").ghost_data_type
                 = Obj(heap, "ghost").ghost_data_type
           /\ ~Flagged(heap', PACKET_FLAG_VELOCITY)
           /\ ~Flagged(heap', PACKET_FLAG_POSITION_FLOAT)
           /\ 0 <= Flags(heap') /\ Flags(heap') < 2 * PACKET_FLAG_POSITION_FLOAT
           /\ KeepsEqual(Position(heap, "ghost") = Position(heap, "snap"),
                         Position(heap', "ghost") = Position(heap, "ghost"),
                         PACKET_FLAG_POSITION_INT)
           /\ KeepsEqual(Scale(heap, "ghost") = Scale(heap, "snap"),
                         Scale(heap', "ghost") = Scale(heap, "ghost"),
                         PACKET_FLAG_SCALE)
           /\ KeepsEqual(Rotation(heap, "ghost").x = Rotation(heap, "snap").x,
                         Rotation(heap', "ghost").x = Rotation(heap, "ghost").x,
                         PACKET_FLAG_ROTATION_X)
           /\ KeepsEqual(Rotation(heap, "ghost").y = Rotation(heap, "snap").y,
                         Rotation(heap', "ghost").y = Rotation(heap, "ghost").y,
                         PACKET_FLAG_ROTATION_Y)
           /\ KeepsEqual(Rotation(heap, "ghost").z = Rotation(heap, "snap").z,
                         Rotation(heap', "ghost").z = Rotation(heap, "ghost").z,
                         PACKET_FLAG_ROTATION_Z)
           /\ KeepsEqual(~NameDiffers(heap),
                         Obj(heap', "ghost").action_name
                            = Obj(heap, "ghost").action_name,
                         PACKET_FLAG_ACTION_NAME)
           /\ KeepsEqual(~HashDiffers(heap),
                         Obj(heap', "ghost").action_hash
                            = Obj(heap, "ghost").action_hash,
                         PACKET_FLAG_ACTION_HASH)
           /\ KeepsEqual(Obj(heap, "ghost").bck_frame = Obj(heap, "snap").bck_frame,
                         Obj(heap', "ghost").bck_frame
                            = Obj(heap, "ghost").bck_frame,
                         PACKET_FLAG_BCK_FRAME)
           /\ KeepsEqual(Obj(heap, "ghost").bck_rate = Obj(heap, "snap").bck_rate,
                         Obj(heap', "ghost").bck_rate = Obj(heap, "ghost").bck_rate,
                         PACKET_FLAG_BCK_RATE)
           /\ \A i \in 1..4 :
                 KeepsEqual(TrackWeights(heap, "ghost")[i]
                               = TrackWeights(heap, "snap")[i],
                            TrackWeights(heap', "ghost")[i]
                               = TrackWeights(heap, "ghost")[i],
                            Bit(TRUE, PACKET_FLAG_TRACK_WEIGHT_0 * Pow2(i - 1)))
        /\ SetNow => Retained(heap') = Retained(heap) ]_vars

\* C10's case: after a compare that took a position over, the incoming
\* snapshot's position was set anew; the retained position is the one taken
\* over, the retained float position is still zero
C10_IncomingChangedAfterCompare ==
    /\ last.op = "set_position"
    /\ Flags(heap) = PACKET_FLAG_POSITION_INT
    /\ Position(heap, "ghost") # Vec3(0, 0, 0)
    /\ Position(heap, "snap") # Position(heap, "ghost")
    /\ PositionF(heap, "snap") # Vec3(0, 0, 0)
    /\ PositionF(heap, "ghost") = Vec3(0, 0, 0)

---------------------------------------------------------------------------
(* The quantization layer on its own: QSpec *)
(* One setter call on a fresh RawGhostData, its input drawn from a range of *)
(* floats: the multiples of 1/4 up to MaxCoarse/4 either side of zero, and  *)
(* the multiples of 1/256 up to MaxFine/256.                                *)

QInputs == { k * (Den \div 4) : k \in -MaxCoarse..MaxCoarse }
           \cup (-MaxFine..MaxFine)

QInit ==
    /\ heap = NewRawGhostData("ghost", GHOST_TYPE_PICHAN_RACER)
              @@ NewRawGhostData("snap", GHOST_TYPE_PICHAN_RACER)
    /\ last = [op |-> "init", arg |-> << >>, again |-> FALSE]
    /\ out = NoOut
    /\ nsets = 0
    /\ loop = NoLoop

QSetPosition ==
    /\ last.op = "init"
    /\ \E x \in QInputs :
        Setter("set_position", <<x, -x, x + 1>>,
                  set_position(heap, "snap", Vec3(x, -x, x + 1)))

QSetRotation ==
    /\ last.op = "init"
    /\ \E x \in QInputs :
        Setter("set_rotation", <<x, -x, x + 1>>,
                  set_rotation(heap, "snap", Vec3(x, -x, x + 1)))

QSetScale ==
    /\ last.op = "init"
    /\ \E x \in QInputs :
        Setter("set_scale", <<x, -x, x + 1>>,
                  set_scale(heap, "snap", Vec3(x, -x, x + 1)))

QSetVelocity ==
    /\ last.op = "init"
    /\ \E x \in QInputs :
        Setter("set_velocity", <<x, -x, x + 1>>,
                  set_velocity(heap, "snap", Vec3(x, -x, x + 1)))

QSetBckFrame ==
    /\ last.op = "init"
    /\ \E x \in QInputs :
        Setter("set_bck_frame", <<x>>, set_bck_frame(heap, "snap", x))

QSetBckRate ==
    /\ last.op = "init"
    /\ \E x \in QInputs :
        Setter("set_bck_rate", <<x>>, set_bck_rate(heap, "snap", x))

QSetTrackWeights ==
    /\ last.op = "init"
    /\ \E x \in QInputs :
        Setter("set_track_weights", <<x, x - 1, -x, x + 1>>,
                  set_track_weights(heap, "snap", <<x, x - 1, -x, x + 1>>))

QNext ==
    \/ QSetPosition
    \/ QSetRotation
    \/ QSetScale
    \/ QSetVelocity
    \/ QSetBckFrame
    \/ QSetBckRate
    \/ QSetTrackWeights

QSpec == QInit /\ [][QNext]_vars

\* q is num/den truncated toward zero (den > 0): the integer next to num/den
\* on zero's side
IsTruncated(q, num, den) ==
    IF num >= 0 THEN q * den <= num /\ num < (q + 1) * den
    ELSE (q - 1) * den < num /\ num <= q * den

\* q is the float value/Den times 2^shift, truncated toward zero
IsQuantized(q, value, shift) ==
    IF shift >= 0 THEN IsTruncated(q, value * Pow2(shift), Den)
    ELSE IsTruncated(q, value, Den * Pow2(-shift))

\* the float get_shift_ratio returns (ratio/Den) is 2^shift
IsPowerOfTwo(ratio, shift) ==
    IF shift >= 0 THEN ratio = Den * Pow2(shift)
    ELSE ratio * Pow2(-shift) = Den

Clamped180(value) ==
    IF value < -180 * Den THEN -180 * Den
    ELSE IF value > 180 * Den THEN 180 * Den
    ELSE value

Vec3IsQuantized(v, arg, shift) ==
    /\ IsQuantized(v.x, arg[1], shift)
    /\ IsQuantized(v.y, arg[2], shift)
    /\ IsQuantized(v.z, arg[3], shift)

\* C7 as stated: a track weight of 1.0 is stored as -128, any other weight w
\* as w * 2^3 truncated toward zero.
C7_WeightsUseShift3 ==
    last.op = "set_track_weights" =>
        \A i \in 1..4 :
            IF last.arg[i] = Den THEN TrackWeights(heap, "snap")[i] = -128
            ELSE IsQuantized(TrackWeights(heap, "snap")[i], last.arg[i], 3)

\* C7, amended: a track weight of 1.0 is stored as -128, any other weight w
\* as w * 2^7 = w * 128 truncated toward zero.
C7_WeightsUseShift7 ==
    last.op = "set_track_weights" =>
        \A i \in 1..4 :
            IF last.arg[i] = Den THEN TrackWeights(heap, "snap")[i] = -128
            ELSE IsQuantized(TrackWeights(heap, "snap")[i], last.arg[i], 7)

\* C7's case: the weights 1.0, 255/256, -1.0 and 257/256 set
C7_WeightsSaturatedAndScaled ==
    /\ last.op = "set_track_weights"
    /\ last.arg = << Den, Den - 1, -Den, Den + 1 >>
    /\ TrackWeights(heap, "snap") = << -128, 127, -128, 128 >>

\* C8: get_shift_ratio(s) is 2^s for the shifts used, and each setter stores
\* its input times the ratio of its field's shift, truncated toward zero:
\* position -2, rotation 7 after clamping to [-180, 180], scale 3, BCK frame
\* 2, BCK rate 3.
C8_SettersQuantize ==
    /\ \A shift \in {-2, 0, 2, 3, 7} :
          IsPowerOfTwo(get_shift_ratio(shift), shift)
    /\ last.op = "set_position" =>
          Vec3IsQuantized(Position(heap, "snap"), last.arg, -2)
    /\ last.op = "set_rotation" =>
          Vec3IsQuantized(Rotation(heap, "snap"),
                          [i \in 1..3 |-> Clamped180(last.arg[i])], 7)
    /\ last.op = "set_scale" =>
          Vec3IsQuantized(Scale(heap, "snap"), last.arg, 3)
    /\ last.op = "set_bck_frame" =>
          IsQuantized(Obj(heap, "snap").bck_frame, last.arg[1], 2)
    /\ last.op = "set_bck_rate" =>
          IsQuantized(Obj(heap, "snap").bck_rate, last.arg[1], 3)

\* C8's case: the position (-5.5, 5.5, -5.24609375) set: -1.375 truncates to
\* -1, not to -2
C8_NegativePositionTruncated ==
    /\ last.op = "set_position"
    /\ last.arg[1] = Float(-11, 2)
    /\ Position(heap, "snap") = Vec3(-1, 1, -1)

---------------------------------------------------------------------------
(* The capture loop: LoopSpec *)
(* record_gst_from_dolphin's body is not part of the sources at hand; the   *)
(* per-frame cycle is modelled from its specification (sections 4.3 and 6) *)
(* and drives the codec above.  loop.next_frame is the expected update-    *)
(* frame counter, loop.frames the running frame count, loop.file the       *)
(* framed packets appended so far.                                         *)

\* counter + 1 and counter - 1 (mod 2^32)
Inc32(v) == IF v[2] = 65535 THEN << (v[1] + 1) % 65536, 0 >>
                            ELSE << v[1], v[2] + 1 >>
Dec32(v) == IF v[2] = 0 THEN << (v[1] + 65535) % 65536, 65535 >>
                        ELSE << v[1], v[2] - 1 >>

\* what the game holds for the ghost in one frame
StandingSnapshot ==
    [position |-> << Float(4, 1), 0, Float(-8, 1) >>,
     rotation |-> << 0, Float(1, 2), 0 >>,
     scale |-> << Float(1, 1), Float(1, 1), Float(1, 1) >>,
     velocity |-> << 0, 0, 0 >>,
     action_name |-> << 87, 97, 105, 116 >>,
     action_hash |-> << 0, 1 >>,
     bck_frame |-> Float(5, 4),
     bck_rate |-> Float(1, 1),
     track_weights |-> << Float(1, 1), 0, 0, 0 >>]

RunningSnapshot ==
    [StandingSnapshot EXCEPT !.position = << Float(8, 1), 0, Float(-8, 1) >>,
                             !.velocity = << Float(3, 2), 0, 0 >>,
                             !.action_name = << 82, 117, 110 >>,
                             !.action_hash = << 57005, 48879 >>,
                             !.bck_frame = Float(3, 1)]

TurnedSnapshot ==
    [StandingSnapshot EXCEPT !.rotation = << 0, Float(90, 1), 0 >>]

LoopSnapshots == { StandingSnapshot, RunningSnapshot, TurnedSnapshot }

\* read the full snapshot of the ghost into the incoming RawGhostData
ReadSnapshot(h, s) ==
    LET h1 == set_position(h, "snap", AsVec3(s.position))
        h2 == set_rotation(h1, "snap", AsVec3(s.rotation))
        h3 == set_scale(h2, "snap", AsVec3(s.scale))
        h4 == set_velocity(h3, "snap", AsVec3(s.velocity))
        h5 == set_action_name(h4, "snap", s.action_name)
        h6 == set_action_hash(h5, "snap", s.action_hash)
        h7 == set_bck_frame(h6, "snap", s.bck_frame)
        h8 == set_bck_rate(h7, "snap", s.bck_rate)
    IN  set_track_weights(h8, "snap", s.track_weights)

\* one framed packet: index, size, big-endian bitmask, payload
Frame(frames, packed) ==
    << frames % 256, Len(packed.payload) + 4,
       packed.packet_flags \div 256, packed.packet_flags % 256 >>
    \o packed.payload

\* the counter values a poll may observe
Counters(next_frame) ==
    { Dec32(Dec32(next_frame)), Dec32(next_frame), next_frame,
      Inc32(next_frame), Inc32(Inc32(Inc32(next_frame))) }

RecorderModes == { RECORDER_MODE_RECORDING, RECORDER_MODE_STOPPED }

Polled(counter, mode) == Did("poll", << counter[1], counter[2], mode >>)

LInit ==
    /\ \E t \in GhostTypes :
          heap = NewRawGhostData("ghost", t) @@ NewRawGhostData("snap", t)
    /\ last = [op |-> "init", arg |-> << >>, again |-> FALSE]
    /\ out = NoOut
    /\ nsets = 0
    /\ \E start \in { << 0, 6 >>, << 0, 0 >>, << 65535, 65535 >> } :
          loop = [status |-> "recording", next_frame |-> start,
                  frames |-> 0, file |-> << >>]

\* the counter is next_frame - 1: the game has not advanced yet
PollWait ==
    /\ loop.status = "recording"
    /\ last' = Polled(Dec32(loop.next_frame), RECORDER_MODE_RECORDING)
    /\ UNCHANGED <<heap, out, nsets, loop>>

\* the counter is next_frame and the recorder still records: one packet
PollFrame ==
    /\ loop.status = "recording"
    /\ loop.frames < MaxFrames
    /\ \E s \in LoopSnapshots :
       \E read \in { ReadSnapshot(heap, s) } :
       \E compared \in { compare_and_update(read, "ghost", "snap") } :
       \E packed \in { pack(compared, "ghost") } :
          /\ heap' = compared
          /\ out' = packed
          /\ loop' = IF packed.status = "returned"
                     THEN [loop EXCEPT
                             !.file = Append(@, Frame(loop.frames, packed)),
                             !.frames = @ + 1,
                             !.next_frame = Inc32(loop.next_frame)]
                     ELSE [loop EXCEPT !.status = packed.status]
    /\ last' = Polled(loop.next_frame, RECORDER_MODE_RECORDING)
    /\ UNCHANGED nsets

\* the counter is next_frame and the recorder stopped: the cycle ends
PollStopped ==
    /\ loop.status = "recording"
    /\ loop' = [loop EXCEPT !.status = "stopped"]
    /\ last' = Polled(loop.next_frame, RECORDER_MODE_STOPPED)
    /\ UNCHANGED <<heap, out, nsets>>

\* any other counter: synchronization error
PollDesync ==
    /\ loop.status = "recording"
    /\ \E counter \in Counters(loop.next_frame)
                        \ { loop.next_frame, Dec32(loop.next_frame) } :
          last' = Polled(counter, RECORDER_MODE_RECORDING)
    /\ loop' = [loop EXCEPT !.status = "sync_error"]
    /\ UNCHANGED <<heap, out, nsets>>

LNext ==
    \/ PollWait
    \/ PollFrame
    \/ PollStopped
    \/ PollDesync

LoopSpec == LInit /\ [][LNext]_vars

\* the poll a step makes
PolledCounter == << last'.arg[1], last'.arg[2] >>
PolledMode == last'.arg[3]

\* C6: frame continuity.  While recording, a poll whose counter is
\* next_frame - 1 (mod 2^32) emits no packet and changes nothing; a poll
\* whose counter is next_frame, the recorder still recording, emits exactly
\* one framed packet, increments the frame count and sets next_frame to
\* counter + 1 (mod 2^32); a poll with any other counter aborts with a
\* synchronization error, and no packet is emitted after an abort.
C6_FrameContinuity ==
    [][ /\ last'.op = "poll" =>
            /\ PolledCounter = Dec32(loop.next_frame) =>
                  /\ loop' = loop
                  /\ heap' = heap
            /\ (PolledCounter = loop.next_frame
                  /\ PolledMode = RECORDER_MODE_RECORDING) =>
                  /\ Len(loop'.file) = Len(loop.file) + 1
                  /\ SubSeq(loop'.file, 1, Len(loop.file)) = loop.file
                  /\ loop'.frames = loop.frames + 1
                  /\ loop'.next_frame = Inc32(PolledCounter)
                  /\ loop'.status = "recording"
            /\ PolledCounter \notin { loop.next_frame,
                                      Dec32(loop.next_frame) } =>
                  /\ loop'.status = "sync_error"
                  /\ loop'.file = loop.file
        /\ loop.status = "sync_error" => loop'.file = loop.file ]_vars

---------------------------------------------------------------------------
(* The bitmask the codec holds (Spec) *)

\* whether pack writes the action name, the action hash, into its payload
EmitsName(h) == TransformWrites(h, "ghost")[7].bytes # << >>
EmitsHash(h) == TransformWrites(h, "ghost")[8].bytes # << >>

SixteenBits == 0..65535

\* C11 as stated: in every reachable state, a freshly constructed
\* RawGhostData included, the bitmask the codec holds and pack returns is a
\* 16-bit value in 0..65535, and pack never emits both an action name and an
\* action hash in one payload.
C11_MaskIsSixteenBits ==
    /\ Flags(heap) \in SixteenBits
    /\ Returned =>
          /\ out.packet_flags = Flags(heap)
          /\ out.packet_flags \in SixteenBits
          /\ ~(EmitsName(heap) /\ EmitsHash(heap))

\* C11, amended: a freshly constructed RawGhostData holds -1 (every bit set),
\* and pack then returns -1 and emits both the action name and the action
\* hash.  A compare_and_update leaves a mask in 0..65535, no other operation
\* changes the mask, pack returns the mask the codec holds, and once a
\* comparison was made pack never emits both a name and a hash.
C11_MaskOfLastComparison ==
    [][ /\ Flags(heap) = -1 \/ Flags(heap) \in SixteenBits
        /\ last.op = "init" => Flags(heap) = -1
        /\ ComparedNow =>
              /\ Flags(heap') \in SixteenBits
              /\ Flags(heap') = ChangedFieldBits(heap)
        /\ ~ComparedNow => Flags(heap') = Flags(heap)
        /\ (PackedNow /\ out'.status = "returned") =>
              /\ out'.packet_flags = Flags(heap)
              /\ Flags(heap) \in SixteenBits =>
                    ~(EmitsName(heap) /\ EmitsHash(heap))
              /\ Flags(heap) = -1 =>
                    /\ EmitsName(heap) /\ EmitsHash(heap)
                    /\ out'.packet_flags = -1 ]_vars

\* pack returned the mask of a comparison that flagged the action hash alone
\* of the two identifiers, with the hash in the payload
C11_PackedHashAfterCompare ==
    /\ Returned
    /\ out.packet_flags = Flags(heap)
    /\ Flags(heap) \in SixteenBits
    /\ EmitsHash(heap) /\ ~EmitsName(heap)

---------------------------------------------------------------------------
(* The delta stream and its reader: StreamSpec *)
(* Each step feeds one snapshot to the codec: the setters fill the incoming *)
(* RawGhostData, ghost.compare_and_update(snap) and ghost.pack() follow.    *)
(* A reader of the stream keeps a third object, "decoder", in the heap and  *)
(* overwrites in it the fields a returned packet flags.  A caller may catch *)
(* the struct.error pack raises and go on with the next snapshot.           *)

\* the inverses of struct.pack's "b", ">h" and ">I"
FromS8(bytes) == IF bytes[1] >= 128 THEN bytes[1] - 256 ELSE bytes[1]
FromS16BE(bytes) ==
    LET u == bytes[1] * 256 + bytes[2]
    IN  IF u >= 32768 THEN u - 65536 ELSE u
FromU32BE(bytes) == << bytes[1] * 256 + bytes[2], bytes[3] * 256 + bytes[4] >>

Drop(bytes, n) == SubSeq(bytes, n + 1, Len(bytes))

\* the length of the NUL-terminated string the bytes start with
CStringLen(bytes) ==
    CHOOSE n \in 0..(Len(bytes) - 1) :
        /\ bytes[n + 1] = 0
        /\ \A i \in 1..n : bytes[i] # 0

Vec3_FromS8(bytes) ==
    Vec3(FromS8(<< bytes[1] >>), FromS8(<< bytes[2] >>), FromS8(<< bytes[3] >>))

\* the reader at wire field n: st.h is the heap, st.rest the payload bytes
\* not read yet; a flagged field is read into the decoder, a clear one left
DecodeField(n, st, flags) ==
    LET h == st.h
        b == st.rest
        Has(flag) == BitAnd(flags, flag) # 0
        Self(field, value, width) ==
            [h |-> [h EXCEPT ![<<"decoder", "self">>][field] = value],
             rest |-> Drop(b, width)]
        Part(field, value, width) ==
            [h |-> [h EXCEPT ![<<"decoder", field>>] = value],
             rest |-> Drop(b, width)]
        Weight(i) ==
            [h |-> [h EXCEPT ![<<"decoder", "track_weights">>][i + 1] =
                                  FromS8(b)],
             rest |-> Drop(b, 1)]
    IN  CASE n = 1 ->
               IF Has(PACKET_FLAG_POSITION_FLOAT)
               THEN [h |-> h, rest |-> Drop(b, 12)]
               ELSE IF Has(PACKET_FLAG_POSITION_INT)
               THEN Part("position",
                         Vec3(FromS16BE(SubSeq(b, 1, 2)),
                              FromS16BE(SubSeq(b, 3, 4)),
                              FromS16BE(SubSeq(b, 5, 6))), 6)
               ELSE st
          [] n = 2 -> IF Has(PACKET_FLAG_VELOCITY)
                      THEN Part("velocity", Vec3_FromS8(b), 3) ELSE st
          [] n = 3 -> IF Has(PACKET_FLAG_SCALE)
                      THEN Part("scale", Vec3_FromS8(b), 3) ELSE st
          [] n = 4 -> IF Has(PACKET_FLAG_ROTATION_X)
                      THEN Part("rotation",
                                [h[<<"decoder", "rotation">>]
                                   EXCEPT !.x = FromS8(b)], 1)
                      ELSE st
          [] n = 5 -> IF Has(PACKET_FLAG_ROTATION_Y)
                      THEN Part("rotation",
                                [h[<<"decoder", "rotation">>]
                                   EXCEPT !.y = FromS8(b)], 1)
                      ELSE st
          [] n = 6 -> IF Has(PACKET_FLAG_ROTATION_Z)
                      THEN Part("rotation",
                                [h[<<"decoder", "rotation">>]
                                   EXCEPT !.z = FromS8(b)], 1)
                      ELSE st
          [] n = 7 -> IF Has(PACKET_FLAG_ACTION_NAME)
                      THEN Self("action_name", SubSeq(b, 1, CStringLen(b)),
                                CStringLen(b) + 1)
                      ELSE st
          [] n = 8 -> IF Has(PACKET_FLAG_ACTION_HASH)
                      THEN Self("action_hash", FromU32BE(b), 4) ELSE st
          [] n = 9 -> IF Has(PACKET_FLAG_BCK_FRAME)
                      THEN Self("bck_frame", FromS8(b), 1) ELSE st
          [] n = 10 -> IF Has(PACKET_FLAG_BCK_RATE)
                       THEN Self("bck_rate", FromS8(b), 1) ELSE st
          [] n = 11 -> IF Has(PACKET_FLAG_TRACK_WEIGHT_0) THEN Weight(0) ELSE st
          [] n = 12 -> IF Has(PACKET_FLAG_TRACK_WEIGHT_1) THEN Weight(1) ELSE st
          [] n = 13 -> IF Has(PACKET_FLAG_TRACK_WEIGHT_2) THEN Weight(2) ELSE st
          [] n = 14 -> IF Has(PACKET_FLAG_TRACK_WEIGHT_3) THEN Weight(3) ELSE st

RECURSIVE DecodeFrom(_, _, _)
DecodeFrom(n, st, flags) ==
    IF n > 14 THEN st.h
    ELSE CHOOSE done \in { DecodeFrom(n + 1, after, flags) :
                             after \in { DecodeField(n, st, flags) } } : TRUE

\* the heap after the reader took the packet in
Decode(h, packed) ==
    DecodeFrom(1, [h |-> h, rest |-> packed.payload], packed.packet_flags)

SInit ==
    /\ \E t \in GhostTypes :
          heap = NewRawGhostData("ghost", t) @@ NewRawGhostData("snap", t)
                 @@ NewRawGhostData("decoder", t)
    /\ last = [op |-> "init", arg |-> << >>, again |-> FALSE]
    /\ out = NoOut
    /\ nsets = 0
    /\ loop = NoLoop

\* one snapshot through the codec: the setters, compare_and_update, pack;
\* the reader takes in the packet pack returns, if it returns one
FeedSnapshot ==
    /\ nsets < MaxSnapshots
    /\ nsets' = nsets + 1
    /\ \E s \in LoopSnapshots :
       \E read \in { ReadSnapshot(heap, s) } :
       \E compared \in { compare_and_update(read, "ghost", "snap") } :
       \E packed \in { pack(compared, "ghost") } :
          /\ heap' = IF packed.status = "returned"
                     THEN Decode(compared, packed)
                     ELSE compared
          /\ out' = packed
    /\ last' = Did("feed", << >>)
    /\ UNCHANGED loop

SNext == FeedSnapshot

StreamSpec == SInit /\ [][SNext]_vars

\* the values the stream carries: position, scale, rotation, BCK frame, BCK
\* rate, track weights and the action identifier the ghost type selects
SelectedIdentifier(h, id) ==
    IF Obj(h, id).ghost_data_type \in NameTypes THEN Obj(h, id).action_name
    ELSE IF Obj(h, id).ghost_data_type \in HashTypes THEN Obj(h, id).action_hash
    ELSE << >>

Carried(h, id) ==
    << Position(h, id), Scale(h, id), Rotation(h, id), Obj(h, id).bck_frame,
       Obj(h, id).bck_rate, TrackWeights(h, id), SelectedIdentifier(h, id) >>

\* C12: delta-stream reconstruction.  For any sequence of incoming
\* snapshots, each applied with compare_and_update and pack, the decoder that
\* started from the zero-valued snapshot and took in every packet holds after
\* every packet the values of the encoder's retained snapshot, and these are
\* the latest incoming snapshot's values.
C12_DecoderFollowsEncoder ==
    (last.op = "feed" /\ out.status = "returned") =>
        /\ Carried(heap, "decoder") = Carried(heap, "ghost")
        /\ Carried(heap, "ghost") = Carried(heap, "snap")

===========================================================================
